---- MODULE Spec2Model ----
(***************************************************************************)
(* simdscan: classification of the mnemonics of an objdump listing by ISA  *)
(* extension (src/main.rs).  The model follows classify() line by line and *)
(* main()'s construction of the Report.                                    *)
(*                                                                         *)
(* A line is a string; Chars gives its characters, on which the two         *)
(* regular expressions OBJLINE_RE and MNE_RE are modelled by what they      *)
(* match.  A captured mnemonic is the matched substring of the line.        *)
(***************************************************************************)
EXTENDS Integers, Sequences, FiniteSets, TLC

VARIABLES
    order,        \* the order in which ISA_TABLE.iter() yields the table's keys
    listing,      \* the input of classify when it is fixed in advance (else << >>)
    n,            \* number of lines the for loop of classify has consumed
    nqual,        \* auxiliary: how many of them matched OBJLINE_RE
    line,         \* the loop variable `line`: the last line consumed ("" before)
    mnemonic,     \* the candidate of that line as an Option: << >> or <<mnemonic>>
    isa_counts,   \* IndexMap<String, usize>: sequence of <<key, count>> entries
    inst_detail,  \* HashMap<String, HashMap<String, usize>>
    pc,           \* "classify" (in the loop), "main" (classify returned), "done"
    report        \* the Report built by main as an Option: << >> or <<report>>

vars ==
    <<order, listing, n, nqual, line, mnemonic, isa_counts, inst_detail, pc, report>>

-----------------------------------------------------------------------------
(* Bounds of the model *)

\* lines per input when the lines are drawn one at a time
MaxLines == 3
\* a HashMap with at most this many keys is iterated in every possible order
MaxPermKeys == 3
\* distinct mnemonics of the longest fixed listing (more than TopN)
MaxDistinct == 12

\* main: sorted_pairs.into_iter().take(10)
TopN == 10

-----------------------------------------------------------------------------
(* ISA_TABLE: the mnemonic sets, verbatim *)

\* SSE: src/main.rs lines 57-67
SET_SSE ==
    { "addps", "addss", "andnps", "andps", "cmpps", "cmpss", "comiss",
      "cvtpi2ps", "cvtps2pi", "cvtsi2ss", "cvtss2si", "cvttps2pi",
      "cvttss2si", "divps", "divss", "ldmxcsr", "maxps", "maxss", "minps",
      "minss", "movaps", "movhlps", "movhps", "movlhps", "movlps",
      "movmskps", "movntps", "movss", "movups", "mulps", "mulss", "orps",
      "rcpps", "rcpss", "rsqrtps", "rsqrtss", "shufps", "sqrtps", "sqrtss",
      "stmxcsr", "subps", "subss", "ucomiss", "unpckhps", "unpcklps",
      "xorps", "pavgb", "pavgw", "pextrw", "pinsrw", "pmaxsw", "pmaxub",
      "pminsw", "pminub", "pmovmskb", "psadbw", "pshufw" }

\* SSE2: src/main.rs lines 70-81
SET_SSE2 ==
    { "addpd", "addsd", "andnpd", "andpd", "cmppd", "comisd", "cvtdq2pd",
      "cvtdq2ps", "cvtpd2dq", "cvtpd2pi", "cvtpd2ps", "cvtpi2pd", "cvtps2dq",
      "cvtps2pd", "cvtsd2si", "cvtsd2ss", "cvtsi2sd", "cvtss2sd",
      "cvttpd2dq", "cvttpd2pi", "cvttps2dq", "cvttsd2si", "divpd", "divsd",
      "maxpd", "maxsd", "minpd", "minsd", "movapd", "movhpd", "movlpd",
      "movmskpd", "movupd", "mulpd", "mulsd", "orpd", "shufpd", "sqrtpd",
      "sqrtsd", "subpd", "subsd", "ucomisd", "unpckhpd", "unpcklpd", "xorpd",
      "movdq2q", "movdqa", "movdqu", "movq2dq", "paddq", "pmuludq",
      "pshufhw", "pshuflw", "pshufd", "pslldq", "psrldq", "punpckhqdq",
      "punpcklqdq" }

\* SSE3: src/main.rs lines 84-87
SET_SSE3 ==
    { "addsubpd", "addsubps", "haddpd", "haddps", "hsubpd", "hsubps",
      "movddup", "movshdup", "movsldup", "lddqu", "fisttp" }

\* SSSE3: src/main.rs lines 90-94
SET_SSSE3 ==
    { "psignw", "psignd", "psignb", "pshufb", "pmulhrsw", "pmaddubsw",
      "phsubw", "phsubsw", "phsubd", "phaddw", "phaddsw", "phaddd",
      "palignr", "pabsw", "pabsd", "pabsb" }

\* SSE4: src/main.rs lines 97-109
SET_SSE4 ==
    { "mpsadbw", "phminposuw", "pmulld", "pmuldq", "dpps", "dppd", "blendps",
      "blendpd", "blendvps", "blendvpd", "pblendvb", "pblendw", "pblenddw",
      "pminsb", "pmaxsb", "pminuw", "pmaxuw", "pminud", "pmaxud", "pminsd",
      "pmaxsd", "roundps", "roundss", "roundpd", "roundsd", "insertps",
      "pinsrb", "pinsrd", "pinsrq", "extractps", "pextrb", "pextrd",
      "pextrw", "pextrq", "pmovsxbw", "pmovzxbw", "pmovsxbd", "pmovzxbd",
      "pmovsxbq", "pmovzxbq", "pmovsxwd", "pmovzxwd", "pmovsxwq", "pmovzxwq",
      "pmovsxdq", "pmovzxdq", "ptest", "pcmpeqq", "pcmpgtq", "packusdw",
      "pcmpestri", "pcmpestrm", "pcmpistri", "pcmpistrm", "crc32", "popcnt",
      "movntdqa", "extrq", "insertq", "movntsd", "movntss", "lzcnt" }

\* AVX: src/main.rs lines 112-127
SET_AVX ==
    { "vaddps", "vaddpd", "vaddss", "vaddsd", "vsubps", "vsubpd", "vsubss",
      "vsubsd", "vmulps", "vmulpd", "vmulss", "vmulsd", "vdivps", "vdivpd",
      "vdivss", "vdivsd", "vmaxps", "vmaxpd", "vmaxss", "vmaxsd", "vminps",
      "vminpd", "vminss", "vminsd", "vxorps", "vxorpd", "vandps", "vandpd",
      "vmovaps", "vmovups", "vmovapd", "vmovupd", "vmovdqa", "vmovdqu",
      "vmovntps", "vmovntpd", "vbroadcastss", "vbroadcastsd", "vinsertf128",
      "vextractf128", "vblendps", "vblendpd", "vblendvps", "vblendvpd",
      "vpermilps", "vpermilpd", "vperm2f128", "vshufps", "vshufpd",
      "vzeroupper", "vpaddd", "vpsubd", "vpmulld", "vpmuludq", "vpackssdw",
      "vpackusdw", "vpcmpeqd", "vpcmpgtd", "vpminud", "vpmaxud", "vpminsd",
      "vpmaxsd", "vgatherdps", "vgatherdpd", "vpgatherdd", "vpgatherdq",
      "vpmaskmovd", "vpmaskmovq", "vmaskmovps", "vmaskmovpd", "vfmadd213pd",
      "vfmadd231pd", "vfmadd132pd", "vfmsub213pd", "vfmsub231pd",
      "vfmsub132pd", "vfnmadd213pd", "vfnmadd231pd", "vfnmadd132pd" }

\* AVX-512: src/main.rs lines 130-134
SET_AVX512 ==
    { "kaddd", "kandd", "korw", "kxorq", "vcompresspd", "vexpandps",
      "vpermb", "vpmovm2d", "vpconflictd", "vpternlogd", "vpshldv",
      "vpopcntd", "vscalefpd", "vrndscaleps" }

ISA_NAMES == {"SSE", "SSE2", "SSE3", "SSSE3", "SSE4", "AVX", "AVX-512"}

ISA_TABLE ==
    "SSE" :> SET_SSE @@ "SSE2" :> SET_SSE2 @@ "SSE3" :> SET_SSE3 @@
    "SSSE3" :> SET_SSSE3 @@ "SSE4" :> SET_SSE4 @@ "AVX" :> SET_AVX @@
    "AVX-512" :> SET_AVX512

-----------------------------------------------------------------------------
(* Characters and strings *)

Chars(s) == [i \in 1..Len(s) |-> SubSeq(s, i, i)]

Digit == {"0", "1", "2", "3", "4", "5", "6", "7", "8", "9"}
Lower == {"a", "b", "c", "d", "e", "f", "g", "h", "i", "j", "k", "l", "m",
          "n", "o", "p", "q", "r", "s", "t", "u", "v", "w", "x", "y", "z"}
Upper == {"A", "B", "C", "D", "E", "F", "G", "H", "I", "J", "K", "L", "M",
          "N", "O", "P", "Q", "R", "S", "T", "U", "V", "W", "X", "Y", "Z"}

\* the regex classes \s, [0-9a-f], \w, [a-z], [a-z0-9] on the model's characters
IsSpace(c) == c \in {" ", "\t"}
IsHex(c) == c \in Digit \cup {"a", "b", "c", "d", "e", "f"}
IsWord(c) == c \in Lower \cup Upper \cup Digit \cup {"_"}
IsLower(c) == c \in Lower
IsLowerDigit(c) == c \in Lower \cup Digit

\* byte values of the characters of the table's keys (String's Ord is bytewise)
Byte ==
    "-" :> 45 @@ "1" :> 49 @@ "2" :> 50 @@ "3" :> 51 @@ "4" :> 52 @@
    "5" :> 53 @@ "A" :> 65 @@ "E" :> 69 @@ "S" :> 83 @@ "V" :> 86 @@
    "X" :> 88

RECURSIVE BytesLess(_, _)
BytesLess(a, b) ==
    IF b = << >> THEN FALSE
    ELSE IF a = << >> THEN TRUE
    ELSE IF Byte[Head(a)] # Byte[Head(b)] THEN Byte[Head(a)] < Byte[Head(b)]
    ELSE BytesLess(Tail(a), Tail(b))

\* a < b for two Strings
StrLess(a, b) == BytesLess(Chars(a), Chars(b))

\* char::to_lowercase on one character
LowerOf ==
    "A" :> "a" @@ "B" :> "b" @@ "C" :> "c" @@ "D" :> "d" @@ "E" :> "e" @@
    "F" :> "f" @@ "G" :> "g" @@ "H" :> "h" @@ "I" :> "i" @@ "J" :> "j" @@
    "K" :> "k" @@ "L" :> "l" @@ "M" :> "m" @@ "N" :> "n" @@ "O" :> "o" @@
    "P" :> "p" @@ "Q" :> "q" @@ "R" :> "r" @@ "S" :> "s" @@ "T" :> "t" @@
    "U" :> "u" @@ "V" :> "v" @@ "W" :> "w" @@ "X" :> "x" @@ "Y" :> "y" @@
    "Z" :> "z"

RECURSIVE to_lowercase(_)
to_lowercase(s) ==
    IF Len(s) = 0 THEN ""
    ELSE LET c == SubSeq(s, 1, 1)
         IN  (IF c \in Upper THEN LowerOf[c] ELSE c)
                 \o to_lowercase(SubSeq(s, 2, Len(s)))

-----------------------------------------------------------------------------
(* The two regular expressions *)

\* the first index >= i of l whose character is outside class (Len(l)+1 if none);
\* class is one of "space", "hex", "lowerdigit"
InClass(class, c) ==
    CASE class = "space" -> IsSpace(c)
      [] class = "hex" -> IsHex(c)
      [] class = "lowerdigit" -> IsLowerDigit(c)

RECURSIVE SkipClass(_, _, _)
SkipClass(l, i, class) ==
    IF i <= Len(l) /\ InClass(class, l[i]) THEN SkipClass(l, i + 1, class)
    ELSE i

\* OBJLINE_RE with the colon made optional: ^\s*[0-9a-f]+:?\s+\w
OBJLINE_RE_colon_optional(s) ==
    LET l == Chars(s)
        a == SkipClass(l, 1, "space")
        b == SkipClass(l, a, "hex")
        b2 == IF b <= Len(l) /\ l[b] = ":" THEN b + 1 ELSE b
        c == SkipClass(l, b2, "space")
    IN  /\ b > a
        /\ c > b2
        /\ c <= Len(l) /\ IsWord(l[c])

\* OBJLINE_RE.is_match(line), OBJLINE_RE = ^\s*[0-9a-f]+:\s+\w
\* (the classes \s, [0-9a-f], ':' and \w that follow one another are disjoint,
\* so the greedy scan is the only way to match)
OBJLINE_RE_is_match(s) ==
    LET l == Chars(s)
        a == SkipClass(l, 1, "space")
        b == SkipClass(l, a, "hex")
        c == SkipClass(l, b + 1, "space")
    IN  /\ b > a
        /\ b <= Len(l) /\ l[b] = ":"
        /\ c > b + 1
        /\ c <= Len(l) /\ IsWord(l[c])

\* \b between positions k and k+1 of l (k in 0..Len(l))
WordBoundary(l, k) ==
    LET left == k >= 1 /\ IsWord(l[k])
        right == k + 1 <= Len(l) /\ IsWord(l[k + 1])
    IN  left # right

\* the ends e of a match of \s([a-z][a-z0-9]+\b) whose \s is at position p
MatchEnds(l, p) ==
    IF p + 2 <= Len(l) /\ IsSpace(l[p]) /\ IsLower(l[p + 1])
    THEN {e \in (p + 2)..(SkipClass(l, p + 2, "lowerdigit") - 1) : WordBoundary(l, e)}
    ELSE {}

Max(S) == CHOOSE x \in S : \A y \in S : y <= x
Min(S) == CHOOSE x \in S : \A y \in S : x <= y

\* MNE_RE.captures(line), group 1, as an Option: << >> is None, <<m>> is Some(m).
\* The leftmost match wins, and in it the greedy [a-z0-9]+ takes the longest end.
MNE_RE_captures(s) ==
    LET l == Chars(s)
        starts == {p \in 1..Len(l) : MatchEnds(l, p) # {}}
    IN  IF starts = {} THEN << >>
        ELSE LET p == Min(starts)
             IN  <<SubSeq(s, p + 1, Max(MatchEnds(l, p)))>>

-----------------------------------------------------------------------------
(* The maps of classify *)

\* an IndexMap is the sequence of its <<key, value>> entries, in insertion order
KeySet(m) == {m[i][1] : i \in DOMAIN m}
Get(m, k) == LET i == CHOOSE i \in DOMAIN m : m[i][1] = k IN m[i][2]

\* the entry inserted with 1 instead of 0 before the += 1
entry_add_from_one(m, k) ==
    IF k \in KeySet(m)
    THEN [i \in DOMAIN m |-> IF m[i][1] = k THEN <<k, m[i][2] + 1>> ELSE m[i]]
    ELSE Append(m, <<k, 2>>)

\* *isa_counts.entry(isa.to_string()).or_insert(0) += 1
entry_add(m, k) ==
    IF k \in KeySet(m)
    THEN [i \in DOMAIN m |-> IF m[i][1] = k THEN <<k, m[i][2] + 1>> ELSE m[i]]
    ELSE Append(m, <<k, 1>>)

\* the mnemonic's count set to 1 (insert) instead of incremented
detail_add_overwrite(d, isa, m) ==
    LET isa_detail == IF isa \in DOMAIN d THEN d[isa] ELSE << >>
        bumped == IF m \in DOMAIN isa_detail
                  THEN [isa_detail EXCEPT ![m] = 1]
                  ELSE isa_detail @@ (m :> 1)
    IN  IF isa \in DOMAIN d THEN [d EXCEPT ![isa] = bumped]
        ELSE d @@ (isa :> bumped)

\* inst_detail.entry(isa).or_insert_with(HashMap::new), then
\* *isa_detail.entry(mnemonic).or_insert(0) += 1
detail_add(d, isa, m) ==
    LET isa_detail == IF isa \in DOMAIN d THEN d[isa] ELSE << >>
        bumped == IF m \in DOMAIN isa_detail
                  THEN [isa_detail EXCEPT ![m] = @ + 1]
                  ELSE isa_detail @@ (m :> 1)
    IN  IF isa \in DOMAIN d THEN [d EXCEPT ![isa] = bumped]
        ELSE d @@ (isa :> bumped)

\* the loop below without its `break`
first_match_nobreak(ord, m) ==
    SelectSeq(ord, LAMBDA isa : m \in ISA_TABLE[isa])

\* the keys for which the body of `for (isa, mset) in ISA_TABLE.iter()` runs its
\* `if`: the keys, in iteration order, whose set contains the mnemonic; the `break`
\* leaves the loop after the first

first_match(ord, m) ==
    LET hits == SelectSeq(ord, LAMBDA isa : m \in ISA_TABLE[isa])
    IN  IF hits = << >> THEN << >> ELSE <<Head(hits)>>

\* the two counters after the loop body ran for each key of hits
RECURSIVE count_hits(_, _, _)
count_hits(counts, hits, m) ==
    IF hits = << >> THEN counts
    ELSE count_hits(entry_add(counts, Head(hits)), Tail(hits), m)

RECURSIVE detail_hits(_, _, _)
detail_hits(d, hits, m) ==
    IF hits = << >> THEN d
    ELSE detail_hits(detail_add(d, Head(hits), m), Tail(hits), m)

\* the map left in insertion order
sort_keys_skipped(m) == m

\* isa_counts.sort_keys(): insertion sort on the keys (they are distinct)
RECURSIVE sort_keys(_)
sort_keys(m) ==
    IF m = << >> THEN << >>
    ELSE LET rest == sort_keys(Tail(m))
             x == Head(m)
             before == SelectSeq(rest, LAMBDA e : StrLess(e[1], x[1]))
             after == SelectSeq(rest, LAMBDA e : ~StrLess(e[1], x[1]))
         IN  before \o <<x>> \o after

-----------------------------------------------------------------------------
(* Iteration orders of a HashMap *)

RECURSIVE Perms(_)
Perms(S) ==
    IF S = {} THEN {<< >>}
    ELSE UNION {{<<x>> \o p : p \in Perms(S \ {x})} : x \in S}

RECURSIVE SetToSeq(_)
SetToSeq(S) ==
    IF S = {} THEN << >>
    ELSE LET x == CHOOSE x \in S : TRUE IN <<x>> \o SetToSeq(S \ {x})

Rot(s, k) == [i \in 1..Len(s) |-> s[((i - 1 + k) % Len(s)) + 1]]
Rev(s) == [i \in 1..Len(s) |-> s[Len(s) + 1 - i]]

\* a sample of the orders of S: the rotations of one order and of its reverse
SampleOrders(S) ==
    LET b == SetToSeq(S)
    IN  {Rot(b, k) : k \in 0..(Len(b) - 1)} \cup {Rot(Rev(b), k) : k \in 0..(Len(b) - 1)}

\* HashMap::iter / into_iter yields the keys in an order the program does not
\* choose: every order of a small key set, a sample of those of a large one
iter_orders(S) ==
    IF Cardinality(S) <= MaxPermKeys THEN Perms(S) ELSE SampleOrders(S)

\* one iteration order for each inner map of inst_detail (S: the keys still to do)
RECURSIVE inner_orders(_, _)
inner_orders(d, S) ==
    IF S = {} THEN {<< >>}
    ELSE LET isa == CHOOSE isa \in S : TRUE
             rest == inner_orders(d, S \ {isa})
             mine == iter_orders(DOMAIN d[isa])
         IN  {f @@ (isa :> o) : f \in rest, o \in mine}

-----------------------------------------------------------------------------
(* The input lines *)

\* address prefixes: with and without leading blanks; an address of decimal
\* digits, one with a letter inside, one that starts with a letter, a single letter
Prefixes ==
    {lead \o addr \o ": " : lead \in {"", "  "}, addr \in {"401000", "4a", "ab", "c"}}

\* first tokens: of SSE, of AVX, of SSE and SSE4, of no set, upper case, a
\* number, a mnemonic with its operand glued to it
Tokens == {"addps", "vaddps", "pextrw", "nop", "ADDPS", "0x90", "addps,x"}

\* lines of other shapes: blank, banners, no colon, no blank after the colon,
\* an upper-case address, no address, nothing after the address, objdump's tab
\* and operands, a second token after one that is no identifier
OtherLines ==
    {"", "Disassembly of section .text:", "0000000000401000 <main>:",
     "  401000 addps", "  401000:addps", "  4A: addps", ": addps", " addps",
     "addps %xmm0", "  401000: ", "  401000:\taddps  %xmm0,%xmm1",
     "  401004:\tvaddps %ymm0,%ymm1,%ymm2", "  ab:\tpextrw $0,%xmm0,%eax",
     "  401000: ADDPS pextrw", "  401000: ab_c addps", "  401000: _x addpd",
     "  401000: a vaddps"}

Lines == {p \o t : p \in Prefixes, t \in Tokens} \cup OtherLines

\* the lines of the specification that tries every order of ISA_TABLE
CoreLines ==
    {"  401000: addps", "  401000: pextrw", "  401000: pmulld",
     "Disassembly of section .text:"}

\* mnemonics of the fixed listings, all of SSE
ListingMnems ==
    <<"addps", "movaps", "mulps", "subps", "xorps", "divps", "maxps", "minps",
      "andps", "orps", "sqrtps", "movups", "shufps", "movss">>

InstrLine(m) == "  401000:\t" \o m \o "  %xmm0,%xmm1"

RECURSIVE Repeat(_, _)
Repeat(x, k) == IF k = 0 THEN << >> ELSE <<x>> \o Repeat(x, k - 1)

\* how often the j-th of k mnemonics occurs in a listing of the given pattern
Reps(pat, j, k) ==
    CASE pat = "flat" -> 1
      [] pat = "up" -> 1 + (j % 3)
      [] pat = "down" -> 1 + ((k - j) % 3)
      [] pat = "first" -> IF j = 1 THEN 1 ELSE 2

RECURSIVE ListingBody(_, _, _)
ListingBody(pat, j, k) ==
    IF j > k THEN << >>
    ELSE Repeat(InstrLine(ListingMnems[j]), Reps(pat, j, k)) \o ListingBody(pat, j + 1, k)

\* a banner, k distinct SSE mnemonics, then one line of AVX and two of pextrw
Listings ==
    {<<"Disassembly of section .text:">> \o ListingBody(pat, 1, k)
        \o <<InstrLine("vaddps"), InstrLine("pextrw"), InstrLine("pextrw")>> :
        pat \in {"flat", "up", "down", "first"},
        k \in 0..(IF MaxDistinct < Len(ListingMnems) THEN MaxDistinct ELSE Len(ListingMnems))}

\* every line of every input of the three specifications
InputLines ==
    Lines \cup CoreLines \cup UNION {{ls[i] : i \in DOMAIN ls} : ls \in Listings}

-----------------------------------------------------------------------------
(* classify *)

\* lines 170-175 on line l: whether OBJLINE_RE matches, and if it does the
\* lower-cased capture of MNE_RE as an Option
scan_line(l) ==
    IF ~OBJLINE_RE_is_match(l) THEN [qualifies |-> FALSE, mnemonic |-> << >>]
    ELSE LET captures == MNE_RE_captures(l)
         IN  [qualifies |-> TRUE,
              mnemonic |-> IF captures = << >> THEN << >>
                           ELSE <<to_lowercase(captures[1])>>]

\* scan_line, tabulated over the input lines
Scan == [l \in InputLines |-> scan_line(l)]

\* one iteration of `for line in lines` (lines 169-192) on line l
ClassifyLine(l) ==
    /\ line' = l
    /\ n' = n + 1
    /\ mnemonic' = Scan[l].mnemonic
    /\ nqual' = IF Scan[l].qualifies THEN nqual + 1 ELSE nqual
    /\ IF Scan[l].mnemonic = << >>
       THEN UNCHANGED <<isa_counts, inst_detail>>
       ELSE LET m == Scan[l].mnemonic[1]
                hits == first_match(order, m)
            IN  /\ isa_counts' = count_hits(isa_counts, hits, m)
                /\ inst_detail' = detail_hits(inst_detail, hits, m)
    /\ UNCHANGED <<order, listing, pc, report>>

\* the loop takes the next line of an input that is not fixed in advance
ReadLine ==
    /\ pc = "classify"
    /\ n < MaxLines
    /\ \E l \in Lines : ClassifyLine(l)

ReadCoreLine ==
    /\ pc = "classify"
    /\ n < MaxLines
    /\ \E l \in CoreLines : ClassifyLine(l)

\* the loop takes the next line of the fixed listing
ListingLine ==
    /\ pc = "classify"
    /\ n < Len(listing)
    /\ ClassifyLine(listing[n + 1])

\* lines 194-197: the loop is over, sort_keys, return
Return ==
    /\ isa_counts' = sort_keys(isa_counts)
    /\ pc' = "main"
    /\ UNCHANGED <<order, listing, n, nqual, line, mnemonic, inst_detail, report>>

\* the input that is not fixed in advance may end after any line
EndOfInput ==
    /\ pc = "classify"
    /\ Return

EndOfListing ==
    /\ pc = "classify"
    /\ n = Len(listing)
    /\ Return

-----------------------------------------------------------------------------
(* main, lines 209-246 *)

RECURSIVE SumValues(_)
SumValues(m) == IF m = << >> THEN 0 ELSE Head(m)[2] + SumValues(Tail(m))

\* the comparison the other way round, a.1.cmp(&b.1): ascending
RECURSIVE sort_by_count_asc(_)
sort_by_count_asc(v) ==
    IF v = << >> THEN << >>
    ELSE LET x == Head(v)
             rest == sort_by_count_asc(Tail(v))
         IN  SelectSeq(rest, LAMBDA e : e[2] < x[2]) \o <<x>>
                 \o SelectSeq(rest, LAMBDA e : e[2] >= x[2])

\* sorted_pairs.sort_by(|a, b| b.1.cmp(&a.1)): stable, by count, descending
RECURSIVE sort_by_count_desc(_)
sort_by_count_desc(v) ==
    IF v = << >> THEN << >>
    ELSE LET x == Head(v)
             rest == sort_by_count_desc(Tail(v))
         IN  SelectSeq(rest, LAMBDA e : e[2] > x[2]) \o <<x>>
                 \o SelectSeq(rest, LAMBDA e : e[2] <= x[2])

\* .take(k)
take(v, k) == SubSeq(v, 1, IF Len(v) < k THEN Len(v) ELSE k)

\* lines 217-232: the IsaDetail of one detail_map, iterated in the order iter
isa_detail_of(detail_map, iter) ==
    LET pairs == [i \in 1..Len(iter) |-> <<iter[i], detail_map[iter[i]]>>]
        sorted_pairs == sort_by_count_desc(pairs)
        occurrences == take(sorted_pairs, TopN)
    IN  [unique_mnemonics |-> Len(occurrences), occurrences |-> occurrences]

\* lines 215-235: details, an IndexMap in the iteration order of inst_detail
details_of(d, outer, inner) ==
    [i \in 1..Len(outer) |-> <<outer[i], isa_detail_of(d[outer[i]], inner[outer[i]])>>]

\* line 211: isa_counts.values().sum()
total_of(counts) == SumValues(counts)

\* the comparison with >= in place of >
has_simd_nonneg(total) == total >= 0

\* line 212
has_simd_of(total) == total > 0

\* lines 240-246, without `binary`, the path handed through unchanged;
\* isa_details is an Option: << >> is None, <<d>> is Some(d)
Report(counts, details) ==
    [has_simd |-> has_simd_of(total_of(counts)),
     isa_summary |-> counts,
     total_simd_insts |-> total_of(counts),
     isa_details |-> details]

\* main after classify returned, args.show_insts false
MainSummary ==
    /\ pc = "main"
    /\ report' = <<Report(isa_counts, << >>)>>
    /\ pc' = "done"
    /\ UNCHANGED <<order, listing, n, nqual, line, mnemonic, isa_counts, inst_detail>>

\* main after classify returned, args.show_insts true
MainDetails ==
    /\ pc = "main"
    /\ \E outer \in iter_orders(DOMAIN inst_detail) :
       \E inner \in inner_orders(inst_detail, DOMAIN inst_detail) :
          report' = <<Report(isa_counts, <<details_of(inst_detail, outer, inner)>>)>>
    /\ pc' = "done"
    /\ UNCHANGED <<order, listing, n, nqual, line, mnemonic, isa_counts, inst_detail>>

-----------------------------------------------------------------------------
(* Specifications *)

Start ==
    /\ n = 0
    /\ nqual = 0
    /\ line = ""
    /\ mnemonic = << >>
    /\ isa_counts = << >>
    /\ inst_detail = << >>
    /\ pc = "classify"
    /\ report = << >>

\* lines drawn one at a time from Lines, a sample of the table's orders
Init ==
    /\ order \in SampleOrders(ISA_NAMES)
    /\ listing = << >>
    /\ Start

Next == ReadLine \/ EndOfInput \/ MainSummary \/ MainDetails

Spec == Init /\ [][Next]_vars

\* every order of the table, lines drawn from CoreLines, classify alone
InitOrders ==
    /\ order \in Perms(ISA_NAMES)
    /\ listing = << >>
    /\ Start

NextOrders == ReadCoreLine \/ EndOfInput

SpecOrders == InitOrders /\ [][NextOrders]_vars

\* a fixed listing
InitListing ==
    /\ order \in SampleOrders(ISA_NAMES)
    /\ listing \in Listings
    /\ Start

NextListing == ListingLine \/ EndOfListing \/ MainSummary \/ MainDetails

SpecListing == InitListing /\ [][NextListing]_vars

-----------------------------------------------------------------------------
(* What the claims speak of, defined from their wording *)

\* the Extensions whose set holds mnemonic m
Claimants(m) == {isa \in ISA_NAMES : m \in ISA_TABLE[isa]}

\* the total of an Extension and the count of a mnemonic under it (0 when absent)
Total(counts, isa) == IF isa \in KeySet(counts) THEN Get(counts, isa) ELSE 0
Occ(d, isa, m) ==
    IF isa \in DOMAIN d THEN (IF m \in DOMAIN d[isa] THEN d[isa][m] ELSE 0) ELSE 0

\* the occurrence counters of an Extension (empty when it has none)
DetailOf(d, isa) == IF isa \in DOMAIN d THEN d[isa] ELSE << >>

RECURSIVE SumOver(_, _)
SumOver(m, S) ==
    IF S = {} THEN 0
    ELSE LET k == CHOOSE k \in S : TRUE IN Get(m, k) + SumOver(m, S \ {k})

\* the sum of the per-Extension totals of an IndexMap
SumTotals(m) == SumOver(m, KeySet(m))

\* the address-prefix shape: blanks, one or more hexadecimal digits, a colon, one
\* or more blanks, a word character; the set holds the position of that character
ShapeStarts(l) ==
    {k + 1 : k \in {k \in 3..(Len(l) - 1) :
        \E i \in 0..(k - 3) : \E j \in (i + 1)..(k - 2) :
            /\ \A x \in 1..i : IsSpace(l[x])
            /\ \A x \in (i + 1)..j : IsHex(l[x])
            /\ l[j + 1] = ":"
            /\ \A x \in (j + 2)..k : IsSpace(l[x])
            /\ IsWord(l[k + 1])}}

\* the last character of the blank-delimited token that starts at position a
RECURSIVE TokenEnd(_, _)
TokenEnd(l, a) ==
    IF a + 1 <= Len(l) /\ ~IsSpace(l[a + 1]) THEN TokenEnd(l, a + 1) ELSE a

\* a whole token that is a lower-case letter followed by lower-case letters or digits
IsIdentifier(l, a, b) ==
    /\ b >= a + 1
    /\ IsLower(l[a])
    /\ \A x \in (a + 1)..b : IsLowerDigit(l[x])

\* the positions at which a blank-delimited token starts
TokenStarts(l) ==
    {a \in 1..Len(l) : ~IsSpace(l[a]) /\ (a = 1 \/ IsSpace(l[a - 1]))}

\* per input line: whether it has the address-prefix shape; the token after the
\* address of a line `<blanks><hex>: <m> [operands]`; the first token that is an
\* identifier (the last two as Options)
Wording ==
    [s \in InputLines |->
        LET l == Chars(s)
            starts == ShapeStarts(l)
            idents == {a \in TokenStarts(l) : IsIdentifier(l, a, TokenEnd(l, a))}
        IN  [shape |-> starts # {},
             after_address |->
                 IF starts = {} THEN << >>
                 ELSE LET a == Min(starts) IN <<SubSeq(s, a, TokenEnd(l, a))>>,
             first_identifier |->
                 IF idents = {} THEN << >>
                 ELSE LET a == Min(idents) IN <<SubSeq(s, a, TokenEnd(l, a))>>]]

\* the order of the Extension names that C8 lists
ListedRank ==
    "AVX" :> 1 @@ "AVX-512" :> 2 @@ "SSE" :> 3 @@ "SSE2" :> 4 @@ "SSE3" :> 5 @@
    "SSE4" :> 6 @@ "SSSE3" :> 7

\* the loop of classify has just consumed a line
Consumed == n' = n + 1

-----------------------------------------------------------------------------
(* The claims *)

\* C1: a line `<blanks><hex>: <m> [operands]` whose m is in exactly one
\* Extension's set adds one to that Extension's total and to its count of m, and
\* changes no other Extension's counters, whatever the line's position and address.
C1_Claim ==
    [][(/\ Consumed
        /\ Wording[line'].after_address # << >>
        /\ Cardinality(Claimants(Wording[line'].after_address[1])) = 1)
       => LET m == Wording[line'].after_address[1]
              E == CHOOSE isa \in Claimants(m) : TRUE
          IN  /\ Total(isa_counts', E) = Total(isa_counts, E) + 1
              /\ Occ(inst_detail', E, m) = Occ(inst_detail, E, m) + 1
              /\ \A X \in ISA_NAMES \ {E} :
                    /\ Total(isa_counts', X) = Total(isa_counts, X)
                    /\ DetailOf(inst_detail', X) = DetailOf(inst_detail, X)]_vars

\* C2: on a line of the address-prefix shape, the candidate is the first
\* blank-delimited token that is as a whole an identifier of length >= 2, and
\* there is no candidate when the line has no such token.
C2_Claim ==
    (n > 0 /\ Wording[line].shape) => mnemonic = Wording[line].first_identifier

\* C3: the mnemonic sets of the table are pairwise disjoint, so no candidate is
\* ever a member of two sets.
C3_Claim ==
    /\ \A a \in ISA_NAMES : \A b \in ISA_NAMES \ {a} :
          ISA_TABLE[a] \cap ISA_TABLE[b] = {}
    /\ mnemonic # << >> => Cardinality(Claimants(mnemonic[1])) <= 1

\* C4: in the occurrence counters of classify no mnemonic appears under two
\* different Extensions.
C4_OneExtension ==
    \A a \in DOMAIN inst_detail : \A b \in DOMAIN inst_detail \ {a} :
        DOMAIN inst_detail[a] \cap DOMAIN inst_detail[b] = {}

\* a mnemonic of two sets has been counted on several lines
C4_Witness ==
    /\ n >= 2
    /\ mnemonic = <<"pextrw">>
    /\ \E isa \in DOMAIN inst_detail : Occ(inst_detail, isa, "pextrw") >= 2

\* C5: a line that has not the address-prefix shape leaves every total and
\* every occurrence counter unchanged.
C5_Frame ==
    [][(Consumed /\ ~Wording[line'].shape)
       => (isa_counts' = isa_counts /\ inst_detail' = inst_detail)]_vars

\* after some line was counted, a line without colon that holds a mnemonic of
\* the table was consumed
C5_Witness ==
    /\ pc = "classify"
    /\ line = "  401000 addps"
    /\ isa_counts # << >>

\* C6: one line adds 0 or 1 to the sum of the totals, also when its mnemonic is
\* in two sets, and the sum never exceeds the number of qualifying lines consumed.
C6_ZeroOrOne ==
    /\ [](SumTotals(isa_counts) <= nqual)
    /\ [][Consumed =>
            SumTotals(isa_counts') - SumTotals(isa_counts) \in {0, 1}]_vars

\* a mnemonic of two sets was counted, once, and so was every line before it
C6_Witness ==
    /\ n >= 2
    /\ mnemonic = <<"pextrw">>
    /\ SumTotals(isa_counts) = n

\* C7: total_simd_insts is the sum of the totals of isa_summary, has_simd says
\* whether it is positive, and the empty input gives the empty summary.
C7_TotalAndFlag ==
    pc = "done" =>
        LET r == report[1]
        IN  /\ r.total_simd_insts = SumTotals(r.isa_summary)
            /\ r.has_simd <=> (r.total_simd_insts > 0)
            /\ n = 0 =>
                  (r.isa_summary = << >> /\ r.total_simd_insts = 0 /\ ~r.has_simd)

\* a report over two Extensions, one of them counted twice
C7_Witness ==
    /\ pc = "done"
    /\ Len(report[1].isa_summary) = 2
    /\ report[1].total_simd_insts = 3
    /\ report[1].has_simd

\* C8: the Extension names of the summary are in strictly ascending order,
\* AVX < AVX-512 < SSE < SSE2 < SSE3 < SSE4 < SSSE3.
C8_Sorted ==
    pc \in {"main", "done"} =>
        /\ \A i \in DOMAIN isa_counts : \A j \in DOMAIN isa_counts :
              i < j => ListedRank[isa_counts[i][1]] < ListedRank[isa_counts[j][1]]
        /\ pc = "done" => report[1].isa_summary = isa_counts

\* classify returned; AVX was met last, on the last line, after SSE twice
C8_Witness ==
    /\ pc = "main"
    /\ mnemonic = <<"vaddps">>
    /\ Total(isa_counts, "AVX") = 1
    /\ Len(isa_counts) = 2
    /\ Total(isa_counts, "SSE") = 2

\* C9: in detailed mode every Extension's occurrences has at most 10 entries in
\* non-increasing order of count, no mnemonic left out has a count above the
\* smallest one included, and unique_mnemonics is the number of entries, the
\* smaller of 10 and the number of distinct mnemonics observed.
C9_TopTen ==
    (pc = "done" /\ report[1].isa_details # << >>) =>
        LET details == report[1].isa_details[1]
        IN  \A i \in DOMAIN details :
                LET observed == inst_detail[details[i][1]]
                    occ == details[i][2].occurrences
                    distinct == Cardinality(DOMAIN observed)
                IN  /\ Len(occ) <= 10
                    /\ \A a \in DOMAIN occ : \A b \in DOMAIN occ :
                          /\ a < b => occ[a][2] >= occ[b][2]
                          /\ a # b => occ[a][1] # occ[b][1]
                    /\ \A a \in DOMAIN occ :
                          /\ occ[a][1] \in DOMAIN observed
                          /\ occ[a][2] = observed[occ[a][1]]
                          /\ \A m \in DOMAIN observed \ KeySet(occ) :
                                observed[m] <= occ[a][2]
                    /\ details[i][2].unique_mnemonics = Len(occ)
                    /\ Len(occ) = IF distinct < 10 THEN distinct ELSE 10

\* a detailed report in which more than 10 mnemonics of SSE were observed and
\* one left out has a smaller count than the last one included
C9_Witness ==
    /\ pc = "done"
    /\ report[1].isa_details # << >>
    /\ "SSE" \in DOMAIN inst_detail
    /\ Cardinality(DOMAIN inst_detail["SSE"]) > 10
    /\ \E i \in DOMAIN report[1].isa_details[1] :
          LET d == report[1].isa_details[1][i]
          IN  /\ d[1] = "SSE"
              /\ \E m \in DOMAIN inst_detail["SSE"] \ KeySet(d[2].occurrences) :
                    inst_detail["SSE"][m] < d[2].occurrences[10][2]

\* C10: isa_details has the keys of isa_summary, every total of the summary is
\* at least 1, and the counts of an Extension's occurrences sum to at most its
\* total, to exactly its total when at most 10 mnemonics were observed for it.
C10_Consistent ==
    pc = "done" =>
        LET r == report[1]
        IN  /\ \A i \in DOMAIN r.isa_summary : r.isa_summary[i][2] >= 1
            /\ r.isa_details # << >> =>
                  LET details == r.isa_details[1]
                  IN  /\ KeySet(details) = KeySet(r.isa_summary)
                      /\ \A i \in DOMAIN details :
                            LET isa == details[i][1]
                                occ == details[i][2].occurrences
                            IN  /\ SumTotals(occ) <= Total(r.isa_summary, isa)
                                /\ Cardinality(DOMAIN inst_detail[isa]) <= 10 =>
                                      SumTotals(occ) = Total(r.isa_summary, isa)

\* a detailed report with one Extension cut to 10 mnemonics, its counts summing
\* to less than its total, and another with all its occurrences listed
C10_Witness ==
    /\ pc = "done"
    /\ report[1].isa_details # << >>
    /\ Len(report[1].isa_summary) >= 2
    /\ \E i \in DOMAIN report[1].isa_details[1] :
          LET d == report[1].isa_details[1][i]
          IN  SumTotals(d[2].occurrences) < Total(report[1].isa_summary, d[1])
    /\ \E i \in DOMAIN report[1].isa_details[1] :
          LET d == report[1].isa_details[1][i]
          IN  /\ SumTotals(d[2].occurrences) = Total(report[1].isa_summary, d[1])
              /\ Total(report[1].isa_summary, d[1]) >= 2

====
